---- MODULE Spec2Model ----
(***************************************************************************)
(* RCtrl (src/core/rctrl.hh): the control-path daemon of rlibv2.           *)
(*                                                                         *)
(* The model has the daemon's lifecycle (start_daemon, stop_daemon, the    *)
(* daemon loop) and its two RPC handlers (fetch_mr_handler, rc_handler),   *)
(* stepped at the granularity of the calls they make into the three        *)
(* registries, which synchronise internally.  The registries, the          *)
(* marshalling and the RPC endpoint live outside rctrl.hh and are          *)
(* modelled from their contract.                                           *)
(***************************************************************************)
EXTENDS Integers, Sequences, FiniteSets, TLC

\* ------------------------------------------------------------------ bounds
\* pthread_create calls over a run (thread ids 1..MaxThreads)
MaxThreads == 2
\* requests one worker thread dispatches before it only polls (total_reqs cap)
MaxReqs == 2

\* ----------------------------------------------------------------- domains
Tids == 1 .. MaxThreads
Callers == {1, 2}
\* the hosting application's thread in the single-caller specification
SingleCaller == {1}
\* resource ids of memory regions and queue pairs
MrIds == {0, 1}
QpIds == {0, 1}
\* nic ids a request may name, and the ones the application can open
NicIds == {0, 1}
OpenableNics == {0}
\* u8 values of RCReq::whether_create that requests carry
Flags == {0, 1, 2, 255}
\* attributes: of memory regions, of the peer's QP, of a QP created locally
MrAttrs == {40, 41}
RemoteAttrs == {20, 21}
LocalAttrs == {30, 31}
\* attrs of the queue pairs the application registers itself
AppAttrs == {50}
\* value-initialised attribute of a reply that sets only .status
ZeroAttr == 0

\* Option<T>: {} is the empty option, {x} holds x
None == {}
Some(x) == {x}
Value(o) == CHOOSE x \in o : TRUE

\* proto::CallbackStatus
StOk == "Ok"
StNotFound == "NotFound"
StWrongArg == "WrongArg"

\* ------------------------------------------------------------ marshalling
\* A ByteBuffer is a sequence of cells; MRReq is one cell wide, RCReq five.
MRReqFields == <<"id">>
RCReqFields == <<"id", "whether_create", "nic_id", "config", "attr">>

\* Marshal::dedump<MRReq>: empty when the buffer is shorter than the struct,
\* otherwise the struct read off the front of the buffer
DedumpMRReq(b) ==
  IF Len(b) < Len(MRReqFields) THEN None ELSE Some([id |-> b[1]])

\* Marshal::dedump<RCReq>
DedumpRCReq(b) ==
  IF Len(b) < Len(RCReqFields) THEN None
  ELSE Some([id |-> b[1], whether_create |-> b[2], nic_id |-> b[3],
             config |-> b[4], attr |-> b[5]])

\* Marshal::dump<MRReply> / dump<RCReply>: the reply struct as bytes
DumpReply(status, attr) == <<status, attr>>
ReplyStatus(b) == b[1]
ReplyAttr(b) == b[2]
NoReply == <<>>

\* buffers that arrive at the two opcodes
MRBuffers == {<<>>} \cup {<<i>> : i \in MrIds} \cup {<<i, 7>> : i \in MrIds}
\* (nic_id and attr vary where the handler reads them: in create requests)
RCBuffers ==
  {<<>>, <<0, 1, 0>>} \cup
  {<<i, 1, n, 0, a>> : i \in QpIds, n \in NicIds, a \in RemoteAttrs} \cup
  {<<i, f, 0, 0, 20>> : i \in QpIds, f \in Flags \ {1}}

\* --------------------------------------------------------------- registries
\* rmem::RegFactory::get_attr_byid
get_attr_byid(mrs, id) == IF id \in DOMAIN mrs THEN mrs[id] ELSE None

\* NicFactory::find_opened_nic
find_opened_nic(nics, nic_id) == IF nic_id \in nics THEN Some(nic_id) ELSE None

\* qp::Factory::query_rc
query_rc(qps, id) == IF id \in DOMAIN qps THEN qps[id] ELSE None

\* qp::Factory::create_and_register_rc can succeed only for an id not yet held
can_register_rc(qps, id) == id \in DOMAIN qps /\ qps[id] = None

\* the queue pair a successful create registers: not yet connected
NewRC(attr) == [attr |-> attr, peer |-> None]

\* qp::Factory::deregister_rc
deregister_rc(qps, id) ==
  IF id \in DOMAIN qps THEN [qps EXCEPT ![id] = None] ELSE qps

\* RC::my_attr
my_attr(rc) == rc.attr

\* ------------------------------------------------------------------- state
VARIABLES
  running,        \* std::atomic<bool> running
  handler_tid,    \* pthread_t handler_tid (0: never written)
  crashed,        \* the process trapped (flowing off a non-void function)
  registered_mrs, \* MrIds -> Option<MemoryRegionAttr>
  registered_qps, \* QpIds -> Option<RC>
  opened_nics,    \* set of opened nic ids
  cpc,            \* caller -> where it is in start_daemon / stop_daemon
  lastop,         \* caller -> the call that returned last
  wpc,            \* thread -> where the worker is
  total_reqs,     \* thread -> daemon()'s total_reqs
  opcode,         \* thread -> handler in progress
  inbuf,          \* thread -> the ByteBuffer handed to the handler
  rc_status,      \* thread -> Option of rc_status.desc, the QP this call created
  reply,          \* thread -> the ByteBuffer the handler returned
  join_tid,       \* caller -> the thread its pthread_join waits for
  calls,          \* thread -> registry/QP operations the handler has made
                  \*           (and "connect_failed" when connect failed)
  pre_qps,        \* thread -> registered_qps when the handler was entered
  ok_create,      \* id -> Option of the last create request that replied Ok,
                  \*       with the attribute of that reply
  joins,          \* thread -> pthread_join calls made on it
  polls_after_clear, \* thread -> run_one_event_loop calls it began while
                  \*           running was false (counted up to 2)
  observed        \* Option of what an application thread's last lookup in
                  \* the QP registry found: [id, rc]

lifecycle == <<running, handler_tid, crashed, cpc, lastop, join_tid, joins>>
registries == <<registered_mrs, registered_qps, opened_nics>>
locals == <<opcode, inbuf, rc_status, reply, calls, pre_qps>>
vars == <<running, handler_tid, crashed, registered_mrs, registered_qps,
          opened_nics, cpc, lastop, wpc, total_reqs, opcode,
          inbuf, rc_status, reply, calls, pre_qps, ok_create, join_tid,
          joins, polls_after_clear, observed>>

\* RCtrl::RCtrl: running(false), empty registries, handlers registered
Init ==
  /\ running = FALSE
  /\ handler_tid = 0
  /\ crashed = FALSE
  /\ registered_mrs = [i \in MrIds |-> None]
  /\ registered_qps = [i \in QpIds |-> None]
  /\ opened_nics = {}
  /\ cpc = [c \in Callers |-> "idle"]
  /\ lastop = [c \in Callers |-> "none"]
  /\ join_tid = [c \in Callers |-> 0]
  /\ wpc = [t \in Tids |-> "unborn"]
  /\ total_reqs = [t \in Tids |-> 0]
  /\ opcode = [t \in Tids |-> "none"]
  /\ inbuf = [t \in Tids |-> <<>>]
  /\ rc_status = [t \in Tids |-> None]
  /\ reply = [t \in Tids |-> NoReply]
  /\ calls = [t \in Tids |-> {}]
  /\ pre_qps = [t \in Tids |-> registered_qps]
  /\ ok_create = [i \in QpIds |-> None]
  /\ joins = [t \in Tids |-> 0]
  /\ polls_after_clear = [t \in Tids |-> 0]
  /\ observed = None

\* -------------------------------------------------------------- lifecycle
\* start_daemon, first statement: running = true
start_daemon(c) ==
  /\ ~crashed
  /\ cpc[c] = "idle"
  /\ \E t \in Tids : wpc[t] = "unborn"
  /\ running' = TRUE
  /\ cpc' = [cpc EXCEPT ![c] = "start_create"]
  /\ UNCHANGED <<handler_tid, crashed, lastop, join_tid, wpc, total_reqs,
                 ok_create, joins, polls_after_clear, observed>>
  /\ UNCHANGED registries
  /\ UNCHANGED locals

\* the thread id pthread_create hands out next
NextTid == CHOOSE t \in Tids : wpc[t] = "unborn" /\ \A u \in Tids : wpc[u] = "unborn" => t <= u

\* start_daemon: pthread_create(&handler_tid, ..., &RCtrl::daemon, this), then
\* the end of a bool function with no return statement: the caller gets an
\* indeterminate bool, which nothing in the daemon reads
start_create(c) ==
  /\ ~crashed
  /\ cpc[c] = "start_create"
  /\ handler_tid' = NextTid
  /\ wpc' = [wpc EXCEPT ![NextTid] = "check"]
  /\ cpc' = [cpc EXCEPT ![c] = "idle"]
  /\ lastop' = [lastop EXCEPT ![c] = "start"]
  /\ UNCHANGED <<running, crashed, join_tid, total_reqs, ok_create, joins,
                 polls_after_clear, observed>>
  /\ UNCHANGED registries
  /\ UNCHANGED locals

\* ... or the build traps there
start_trap(c) ==
  /\ ~crashed
  /\ cpc[c] = "start_create"
  /\ crashed' = TRUE
  /\ UNCHANGED <<running, handler_tid, cpc, lastop, join_tid, wpc,
                 total_reqs, ok_create, joins, polls_after_clear, observed>>
  /\ UNCHANGED registries
  /\ UNCHANGED locals

\* (stop_daemon without its test of running)
stop_daemon_unguarded(c) ==
  /\ ~crashed
  /\ cpc[c] = "idle"
  /\ cpc' = [cpc EXCEPT ![c] = "stop_clear"]
  /\ UNCHANGED <<running, handler_tid, crashed, lastop, join_tid, joins, wpc,
                 total_reqs, polls_after_clear, ok_create, observed>>
  /\ UNCHANGED registries
  /\ UNCHANGED locals

\* stop_daemon: if (running)
stop_daemon(c) ==
  /\ ~crashed
  /\ cpc[c] = "idle"
  /\ IF running
       THEN /\ cpc' = [cpc EXCEPT ![c] = "stop_clear"]
            /\ UNCHANGED lastop
       ELSE /\ lastop' = [lastop EXCEPT ![c] = "stop_noop"]
            /\ UNCHANGED cpc
  /\ UNCHANGED <<running, handler_tid, crashed, join_tid, wpc, total_reqs,
                 ok_create, joins, polls_after_clear, observed>>
  /\ UNCHANGED registries
  /\ UNCHANGED locals

\* stop_daemon: running = false
stop_clear(c) ==
  /\ ~crashed
  /\ cpc[c] = "stop_clear"
  /\ running' = FALSE
  /\ cpc' = [cpc EXCEPT ![c] = "stop_join"]
  /\ UNCHANGED <<handler_tid, crashed, lastop, join_tid, wpc, total_reqs,
                 ok_create, joins, polls_after_clear, observed>>
  /\ UNCHANGED registries
  /\ UNCHANGED locals

\* (stop_daemon that returns without joining)
stop_join_skipped(c) ==
  /\ ~crashed
  /\ cpc[c] = "stop_join"
  /\ cpc' = [cpc EXCEPT ![c] = "idle"]
  /\ lastop' = [lastop EXCEPT ![c] = "stop"]
  /\ UNCHANGED <<running, handler_tid, crashed, join_tid, wpc, total_reqs,
                 ok_create, joins, polls_after_clear, observed>>
  /\ UNCHANGED registries
  /\ UNCHANGED locals

\* stop_daemon: pthread_join(handler_tid, nullptr) is called
stop_join(c) ==
  /\ ~crashed
  /\ cpc[c] = "stop_join"
  /\ join_tid' = [join_tid EXCEPT ![c] = handler_tid]
  /\ joins' = [t \in Tids |-> IF t = handler_tid THEN joins[t] + 1 ELSE joins[t]]
  /\ cpc' = [cpc EXCEPT ![c] = "stop_wait"]
  /\ UNCHANGED <<running, handler_tid, crashed, lastop, wpc, total_reqs,
                 ok_create, polls_after_clear, observed>>
  /\ UNCHANGED registries
  /\ UNCHANGED locals

\* (a join that does not wait for the thread to end)
stop_joined_early(c) ==
  /\ ~crashed
  /\ cpc[c] = "stop_wait"
  /\ join_tid[c] \in Tids
  /\ cpc' = [cpc EXCEPT ![c] = "idle"]
  /\ lastop' = [lastop EXCEPT ![c] = "stop"]
  /\ join_tid' = [join_tid EXCEPT ![c] = 0]
  /\ UNCHANGED joins
  /\ UNCHANGED <<running, handler_tid, crashed, wpc, total_reqs, ok_create,
                 polls_after_clear, observed>>
  /\ UNCHANGED registries
  /\ UNCHANGED locals

\* pthread_join returns once the thread has exited; stop_daemon returns
stop_joined(c) ==
  /\ ~crashed
  /\ cpc[c] = "stop_wait"
  /\ join_tid[c] \in Tids
  /\ wpc[join_tid[c]] = "exited"
  /\ wpc' = [wpc EXCEPT ![join_tid[c]] = "joined"]
  /\ cpc' = [cpc EXCEPT ![c] = "idle"]
  /\ lastop' = [lastop EXCEPT ![c] = "stop"]
  /\ join_tid' = [join_tid EXCEPT ![c] = 0]
  /\ UNCHANGED joins
  /\ UNCHANGED <<running, handler_tid, crashed, total_reqs, ok_create,
                 polls_after_clear, observed>>
  /\ UNCHANGED registries
  /\ UNCHANGED locals

\* pthread_join on a handle another stop_daemon call has already joined:
\* undefined; the call returns an error at once (stop_daemon ignores it and
\* returns) or the process dies
stop_join_stale(c) ==
  /\ ~crashed
  /\ cpc[c] = "stop_wait"
  /\ join_tid[c] \in Tids
  /\ wpc[join_tid[c]] = "joined"
  /\ \/ /\ cpc' = [cpc EXCEPT ![c] = "idle"]
        /\ lastop' = [lastop EXCEPT ![c] = "stop"]
        /\ join_tid' = [join_tid EXCEPT ![c] = 0]
        /\ UNCHANGED crashed
     \/ /\ crashed' = TRUE
        /\ UNCHANGED <<cpc, lastop, join_tid>>
  /\ UNCHANGED <<running, handler_tid, joins, wpc, total_reqs, ok_create,
                 polls_after_clear, observed>>
  /\ UNCHANGED registries
  /\ UNCHANGED locals

\* (a loop that never tests running)
daemon_check_always(t) ==
  /\ ~crashed
  /\ wpc[t] = "check"
  /\ wpc' = [wpc EXCEPT ![t] = "pump"]
  /\ UNCHANGED <<total_reqs, ok_create, polls_after_clear, observed>>
  /\ UNCHANGED lifecycle
  /\ UNCHANGED registries
  /\ UNCHANGED locals

\* daemon: while (ctrl.running)
daemon_check(t) ==
  /\ ~crashed
  /\ wpc[t] = "check"
  /\ wpc' = [wpc EXCEPT ![t] = IF running THEN "pump" ELSE "log"]
  /\ UNCHANGED <<total_reqs, ok_create, polls_after_clear, observed>>
  /\ UNCHANGED lifecycle
  /\ UNCHANGED registries
  /\ UNCHANGED locals

\* daemon: RDMA_LOG after the loop, then the end of a void* function with no
\* return statement: the thread ends, and its total_reqs with it
daemon_exit(t) ==
  /\ ~crashed
  /\ wpc[t] = "log"
  /\ wpc' = [wpc EXCEPT ![t] = "exited"]
  /\ total_reqs' = [total_reqs EXCEPT ![t] = 0]
  /\ polls_after_clear' = [polls_after_clear EXCEPT ![t] = 0]
  /\ UNCHANGED <<ok_create, observed>>
  /\ UNCHANGED lifecycle
  /\ UNCHANGED registries
  /\ UNCHANGED locals

\* ... or the build traps there
daemon_trap(t) ==
  /\ ~crashed
  /\ wpc[t] = "log"
  /\ crashed' = TRUE
  /\ UNCHANGED <<running, handler_tid, cpc, lastop, join_tid, wpc,
                 total_reqs, ok_create, joins, polls_after_clear, observed>>
  /\ UNCHANGED registries
  /\ UNCHANGED locals

\* thread t calls run_one_event_loop; calls begun with running false are
\* counted
BeginPoll(t) ==
  polls_after_clear' =
    [polls_after_clear EXCEPT ![t] = IF running \/ @ >= 2 THEN @ ELSE @ + 1]

\* daemon: total_reqs += ctrl.rpc.run_one_event_loop(), nothing pending
poll_idle(t) ==
  /\ ~crashed
  /\ wpc[t] = "pump"
  /\ wpc' = [wpc EXCEPT ![t] = "check"]
  /\ BeginPoll(t)
  /\ UNCHANGED <<total_reqs, ok_create, observed>>
  /\ UNCHANGED lifecycle
  /\ UNCHANGED registries
  /\ UNCHANGED locals

\* ---------------------------------------------------------------- handlers
\* the handler has returned `r`: run_one_event_loop has the reply to send
Return(t, r) ==
  /\ reply' = [reply EXCEPT ![t] = r]
  /\ wpc' = [wpc EXCEPT ![t] = "replied"]

\* run_one_event_loop hands buffer b to the handler registered for opcode op
Dispatch(t, op, b) ==
  /\ ~crashed
  /\ wpc[t] = "pump"
  /\ total_reqs[t] < MaxReqs
  /\ opcode' = [opcode EXCEPT ![t] = op]
  /\ inbuf' = [inbuf EXCEPT ![t] = b]
  /\ pre_qps' = [pre_qps EXCEPT ![t] = registered_qps]
  /\ BeginPoll(t)

\* (a handler that looks up whatever the buffer holds)
fetch_mr_reply_unchecked(mrs, b) ==
  LET o_attr == IF Len(b) > 0 THEN get_attr_byid(mrs, b[1]) ELSE None IN
  IF o_attr # None
    THEN DumpReply(StOk, Value(o_attr))
    ELSE DumpReply(StNotFound, ZeroAttr)

\* (a handler that answers Ok without the stored attribute)
fetch_mr_reply_noattr(mrs, b) ==
  LET o_id == DedumpMRReq(b) IN
  IF o_id # None
    THEN IF get_attr_byid(mrs, Value(o_id).id) # None
           THEN DumpReply(StOk, ZeroAttr)
           ELSE DumpReply(StNotFound, ZeroAttr)
    ELSE DumpReply(StWrongArg, ZeroAttr)

\* fetch_mr_handler's reply for buffer b
fetch_mr_reply(mrs, b) ==
  LET o_id == DedumpMRReq(b) IN
  IF o_id # None
    THEN LET o_attr == get_attr_byid(mrs, Value(o_id).id) IN
         IF o_attr # None
           THEN DumpReply(StOk, Value(o_attr))
           ELSE DumpReply(StNotFound, ZeroAttr)
    ELSE DumpReply(StWrongArg, ZeroAttr)

\* fetch_mr_handler, whole: one read of the MR registry
fetch_mr_handler(t, b) ==
  /\ Dispatch(t, "FetchMr", b)
  /\ Return(t, fetch_mr_reply(registered_mrs, b))
  /\ calls' = [calls EXCEPT ![t] =
                 IF DedumpMRReq(b) # None THEN {"get_attr_byid"} ELSE {}]
  /\ UNCHANGED <<total_reqs, rc_status, ok_create, observed>>
  /\ UNCHANGED lifecycle
  /\ UNCHANGED registries

\* fetch_qp_attr's reply
fetch_qp_attr(qps, req) ==
  LET rc == query_rc(qps, req.id) IN
  IF rc # None
    THEN DumpReply(StOk, my_attr(Value(rc)))
    ELSE DumpReply(StNotFound, ZeroAttr)

\* rc_handler's sanity check: the request goes on unless
\* !(whether_create == 1 || whether_create != 0)
FlagAccepted(whether_create) == whether_create = 1 \/ whether_create # 0

\* rc_handler's test for the create branch
WantsCreate(whether_create) == whether_create = 1

\* a create request goes on only with the nic find_opened_nic returns
NicAssumed(nics, nic_id) == TRUE
NicFound(nics, nic_id) == find_opened_nic(nics, nic_id) # None

\* the request a connection handler in progress works on
RcReq(t) == Value(DedumpRCReq(inbuf[t]))

\* thread t is inside rc_handler
InRcHandler(t) == wpc[t] \in {"rc_create", "rc_connect", "rc_dereg", "rc_fetch"}

\* an Ok reply to a create request is kept for later requests to compare with
NoteOk(b, r) ==
  LET req == Value(DedumpRCReq(b)) IN
  ok_create' = IF WantsCreate(req.whether_create) /\ ReplyStatus(r) = StOk
                 THEN [ok_create EXCEPT ![req.id] =
                         Some([buf |-> b, attr |-> ReplyAttr(r)])]
                 ELSE ok_create

\* rc_handler up to its first registry call: dedump, the sanity check, then
\* find_opened_nic for a create request and fetch_qp_attr for the others
rc_handler(t, b) ==
  /\ Dispatch(t, "CreateRC", b)
  /\ LET rc_req_o == DedumpRCReq(b) IN
     IF rc_req_o = None
       THEN /\ Return(t, DumpReply(StWrongArg, ZeroAttr))
            /\ UNCHANGED <<calls, ok_create, observed>>
     ELSE LET rc_req == Value(rc_req_o) IN
       IF ~FlagAccepted(rc_req.whether_create)
         THEN /\ Return(t, DumpReply(StWrongArg, ZeroAttr))
              /\ UNCHANGED <<calls, ok_create, observed>>
       ELSE IF WantsCreate(rc_req.whether_create)
         THEN /\ calls' = [calls EXCEPT ![t] = {"find_opened_nic"}]
              /\ UNCHANGED <<ok_create, observed>>
              /\ IF NicFound(opened_nics, rc_req.nic_id)
                   THEN /\ wpc' = [wpc EXCEPT ![t] = "rc_create"]
                        /\ UNCHANGED reply
                   ELSE Return(t, DumpReply(StWrongArg, ZeroAttr))
         ELSE /\ calls' = [calls EXCEPT ![t] = {"query_rc"}]
              /\ Return(t, fetch_qp_attr(registered_qps, rc_req))
              /\ NoteOk(b, fetch_qp_attr(registered_qps, rc_req))
              /\ UNCHANGED observed
  /\ UNCHANGED <<total_reqs, rc_status>>
  /\ UNCHANGED lifecycle
  /\ UNCHANGED registries

\* rc_handler 1.1: create_and_register_rc registers a new, unconnected QP
rc_create_ok(t) ==
  /\ ~crashed
  /\ wpc[t] = "rc_create"
  /\ can_register_rc(registered_qps, RcReq(t).id)
  /\ \E a \in LocalAttrs :
       /\ registered_qps' =
            [registered_qps EXCEPT ![RcReq(t).id] = Some(NewRC(a))]
       /\ rc_status' = [rc_status EXCEPT ![t] = Some(NewRC(a))]
  /\ calls' = [calls EXCEPT ![t] = @ \cup {"create_and_register_rc"}]
  /\ wpc' = [wpc EXCEPT ![t] = "rc_connect"]
  /\ UNCHANGED <<registered_mrs, opened_nics, total_reqs, opcode, inbuf,
                 reply, pre_qps, ok_create, polls_after_clear, observed>>
  /\ UNCHANGED lifecycle

\* (a failed create that falls through to the final fetch)
rc_create_fail_fetches(t) ==
  /\ ~crashed
  /\ wpc[t] = "rc_create"
  /\ calls' = [calls EXCEPT ![t] = @ \cup {"create_and_register_rc"}]
  /\ wpc' = [wpc EXCEPT ![t] = "rc_fetch"]
  /\ UNCHANGED <<total_reqs, opcode, inbuf, rc_status, reply, pre_qps,
                 ok_create, polls_after_clear, observed>>
  /\ UNCHANGED lifecycle
  /\ UNCHANGED registries

\* (a failed create that "cleans up" by deregistering the id)
rc_create_fail_cleans(t) ==
  /\ ~crashed
  /\ wpc[t] = "rc_create"
  /\ calls' = [calls EXCEPT ![t] = @ \cup {"create_and_register_rc"}]
  /\ registered_qps' = deregister_rc(registered_qps, RcReq(t).id)
  /\ Return(t, DumpReply(StWrongArg, ZeroAttr))
  /\ UNCHANGED <<registered_mrs, opened_nics, total_reqs, opcode, inbuf,
                 rc_status, pre_qps, ok_create, polls_after_clear, observed>>
  /\ UNCHANGED lifecycle

\* rc_handler 1.1: create_and_register_rc fails (the id is taken, or the
\* hardware refuses): goto WA
rc_create_fail(t) ==
  /\ ~crashed
  /\ wpc[t] = "rc_create"
  /\ calls' = [calls EXCEPT ![t] = @ \cup {"create_and_register_rc"}]
  /\ Return(t, DumpReply(StWrongArg, ZeroAttr))
  /\ UNCHANGED <<total_reqs, opcode, inbuf, rc_status, pre_qps, ok_create,
                 polls_after_clear, observed>>
  /\ UNCHANGED lifecycle
  /\ UNCHANGED registries

\* the QP rc_status.desc points at, connected to the peer (desc is shared
\* with the registry: the entry changes while the registry still holds it)
Connected(rc, attr) == [rc EXCEPT !.peer = Some(attr)]

\* (a connect that works on a copy of the QP, not on the registered one)
rc_connect_ok_on_copy(t) ==
  /\ ~crashed
  /\ wpc[t] = "rc_connect"
  /\ rc_status' = [rc_status EXCEPT
                     ![t] = Some(Connected(Value(rc_status[t]), RcReq(t).attr))]
  /\ calls' = [calls EXCEPT ![t] = @ \cup {"connect"}]
  /\ wpc' = [wpc EXCEPT ![t] = "rc_fetch"]
  /\ UNCHANGED <<total_reqs, opcode, inbuf, reply, pre_qps, ok_create,
                 polls_after_clear, observed>>
  /\ UNCHANGED lifecycle
  /\ UNCHANGED registries

\* rc_handler 1.2: rc_status.desc->connect(rc_req.attr) == IOCode::Ok
rc_connect_ok(t) ==
  /\ ~crashed
  /\ wpc[t] = "rc_connect"
  /\ LET desc == Value(rc_status[t])
         now == Connected(desc, RcReq(t).attr)
     IN /\ rc_status' = [rc_status EXCEPT ![t] = Some(now)]
        /\ registered_qps' =
             IF query_rc(registered_qps, RcReq(t).id) = Some(desc)
               THEN [registered_qps EXCEPT ![RcReq(t).id] = Some(now)]
               ELSE registered_qps
  /\ calls' = [calls EXCEPT ![t] = @ \cup {"connect"}]
  /\ wpc' = [wpc EXCEPT ![t] = "rc_fetch"]
  /\ UNCHANGED <<registered_mrs, opened_nics, total_reqs, opcode, inbuf,
                 reply, pre_qps, ok_create, polls_after_clear,
                 observed>>
  /\ UNCHANGED lifecycle

\* (a failed connect that falls through to the final fetch)
rc_connect_fail_ignored(t) ==
  /\ ~crashed
  /\ wpc[t] = "rc_connect"
  /\ calls' = [calls EXCEPT ![t] = @ \cup {"connect", "connect_failed"}]
  /\ wpc' = [wpc EXCEPT ![t] = "rc_fetch"]
  /\ UNCHANGED <<total_reqs, opcode, inbuf, rc_status, reply, pre_qps,
                 ok_create, polls_after_clear, observed>>
  /\ UNCHANGED lifecycle
  /\ UNCHANGED registries

\* rc_handler 1.2: connect fails
rc_connect_fail(t) ==
  /\ ~crashed
  /\ wpc[t] = "rc_connect"
  /\ calls' = [calls EXCEPT ![t] = @ \cup {"connect", "connect_failed"}]
  /\ wpc' = [wpc EXCEPT ![t] = "rc_dereg"]
  /\ UNCHANGED <<total_reqs, opcode, inbuf, rc_status, reply, pre_qps,
                 ok_create, polls_after_clear, observed>>
  /\ UNCHANGED lifecycle
  /\ UNCHANGED registries

\* the registry after rc_handler's "in connect error" branch
RollbackKeeps(qps, id) == qps
RollbackWipes(qps, id) == [i \in DOMAIN qps |-> None]
Rollback(qps, id) == deregister_rc(qps, id)

\* rc_handler 1.2, in connect error: deregister_rc(rc_req.id); goto WA
rc_rollback(t) ==
  /\ ~crashed
  /\ wpc[t] = "rc_dereg"
  /\ registered_qps' = Rollback(registered_qps, RcReq(t).id)
  /\ calls' = [calls EXCEPT ![t] = @ \cup {"deregister_rc"}]
  /\ Return(t, DumpReply(StWrongArg, ZeroAttr))
  /\ UNCHANGED <<registered_mrs, opened_nics, total_reqs, opcode, inbuf,
                 rc_status, pre_qps, ok_create, polls_after_clear, observed>>
  /\ UNCHANGED lifecycle

\* rc_handler 2: return fetch_qp_attr(rc_req), after a create that connected
rc_fetch(t) ==
  /\ ~crashed
  /\ wpc[t] = "rc_fetch"
  /\ calls' = [calls EXCEPT ![t] = @ \cup {"query_rc"}]
  /\ Return(t, fetch_qp_attr(registered_qps, RcReq(t)))
  /\ NoteOk(inbuf[t], fetch_qp_attr(registered_qps, RcReq(t)))
  /\ UNCHANGED observed
  /\ UNCHANGED <<total_reqs, opcode, inbuf, rc_status, pre_qps,
                 polls_after_clear>>
  /\ UNCHANGED lifecycle
  /\ UNCHANGED registries

\* run_one_event_loop sends the reply and returns 1; daemon adds it to
\* total_reqs and goes round the loop
poll_done(t) ==
  /\ ~crashed
  /\ wpc[t] = "replied"
  /\ total_reqs' = [total_reqs EXCEPT ![t] = @ + 1]
  /\ wpc' = [wpc EXCEPT ![t] = "check"]
  /\ opcode' = [opcode EXCEPT ![t] = "none"]
  /\ inbuf' = [inbuf EXCEPT ![t] = <<>>]
  /\ rc_status' = [rc_status EXCEPT ![t] = None]
  /\ reply' = [reply EXCEPT ![t] = NoReply]
  /\ calls' = [calls EXCEPT ![t] = {}]
  /\ pre_qps' = [pre_qps EXCEPT ![t] = registered_qps]
  /\ UNCHANGED <<ok_create, observed, polls_after_clear>>
  /\ UNCHANGED lifecycle
  /\ UNCHANGED registries

\* ------------------------------------------------------ hosting application
\* registered_mrs is public: the application registers a memory region; the
\* registry keeps the entry it has when the id is taken
insert_mr(id, attr) ==
  /\ ~crashed
  /\ registered_mrs[id] = None
  /\ registered_mrs' = [registered_mrs EXCEPT ![id] = Some(attr)]
  /\ UNCHANGED <<registered_qps, opened_nics, wpc, total_reqs, ok_create,
                 polls_after_clear, observed>>
  /\ UNCHANGED lifecycle
  /\ UNCHANGED locals

\* opened_nics is public: the application opens a nic
insert_nic(n) ==
  /\ ~crashed
  /\ n \notin opened_nics
  /\ opened_nics' = opened_nics \cup {n}
  /\ UNCHANGED <<registered_mrs, registered_qps, wpc, total_reqs, ok_create,
                 polls_after_clear, observed>>
  /\ UNCHANGED lifecycle
  /\ UNCHANGED locals

\* registered_qps is public: a thread of the application looks up id i while
\* a connection handler works on that id, and keeps what it found
observe_rc(i) ==
  /\ ~crashed
  /\ \E t \in Tids : InRcHandler(t) /\ RcReq(t).id = i
  /\ query_rc(registered_qps, i) # None
  /\ observed' = Some([id |-> i, rc |-> Value(query_rc(registered_qps, i))])
  /\ UNCHANGED <<wpc, total_reqs, ok_create, polls_after_clear>>
  /\ UNCHANGED lifecycle
  /\ UNCHANGED registries
  /\ UNCHANGED locals

\* registered_qps is public: the application registers a queue pair of its
\* own under id i
app_register_rc(i, a) ==
  /\ ~crashed
  /\ can_register_rc(registered_qps, i)
  /\ registered_qps' = [registered_qps EXCEPT ![i] = Some(NewRC(a))]
  /\ UNCHANGED <<registered_mrs, opened_nics, wpc, total_reqs, ok_create,
                 polls_after_clear, observed>>
  /\ UNCHANGED lifecycle
  /\ UNCHANGED locals

\* ... or deregisters the queue pair held under id i
app_deregister_rc(i) ==
  /\ ~crashed
  /\ query_rc(registered_qps, i) # None
  /\ registered_qps' = deregister_rc(registered_qps, i)
  /\ UNCHANGED <<registered_mrs, opened_nics, wpc, total_reqs, ok_create,
                 polls_after_clear, observed>>
  /\ UNCHANGED lifecycle
  /\ UNCHANGED locals

\* ------------------------------------------------------------ specification
Worker(t) ==
  \/ daemon_check(t)
  \/ daemon_exit(t)
  \/ daemon_trap(t)
  \/ poll_idle(t)
  \/ \E b \in MRBuffers : fetch_mr_handler(t, b)
  \/ \E b \in RCBuffers : rc_handler(t, b)
  \/ rc_create_ok(t)
  \/ rc_create_fail(t)
  \/ rc_connect_ok(t)
  \/ rc_connect_fail(t)
  \/ rc_rollback(t)
  \/ rc_fetch(t)
  \/ poll_done(t)

Application ==
  \/ \E id \in MrIds, attr \in MrAttrs : insert_mr(id, attr)
  \/ \E n \in OpenableNics : insert_nic(n)

\* One application thread drives the daemon and, as start_daemon's contract
\* asks, never starts a daemon that is running.
Caller(c) ==
  \/ ~running /\ start_daemon(c)
  \/ start_create(c)
  \/ start_trap(c)
  \/ stop_daemon(c)
  \/ stop_clear(c)
  \/ stop_join(c)
  \/ stop_joined(c)

Next ==
  \/ \E c \in SingleCaller : Caller(c)
  \/ \E t \in Tids : Worker(t)
  \/ Application

Spec == Init /\ [][Next]_vars

\* Two application threads share the daemon. The daemon is started as
\* start_daemon's contract asks (by one thread, with no call in progress and
\* no worker left over); either thread may call stop_daemon at any time after
\* start_daemon has returned. The worker serves fetch-MR requests.
NoCallInProgress == \A d \in Callers : cpc[d] = "idle"
NoWorkerLeft == \A t \in Tids : wpc[t] \in {"unborn", "joined"}

CallerShared(c) ==
  \/ c \in SingleCaller /\ ~running /\ NoCallInProgress /\ NoWorkerLeft
       /\ start_daemon(c)
  \/ start_create(c)
  \/ start_trap(c)
  \/ (\A d \in Callers : cpc[d] # "start_create") /\ stop_daemon(c)
  \/ stop_clear(c)
  \/ stop_join(c)
  \/ stop_joined(c)
  \/ stop_join_stale(c)

WorkerMr(t) ==
  \/ daemon_check(t)
  \/ daemon_exit(t)
  \/ daemon_trap(t)
  \/ poll_idle(t)
  \/ \E b \in MRBuffers : fetch_mr_handler(t, b)
  \/ poll_done(t)

NextShared ==
  \/ \E c \in Callers : CallerShared(c)
  \/ \E t \in Tids : WorkerMr(t)

SpecShared == Init /\ [][NextShared]_vars

\* One application thread drives the daemon, the worker serves connection
\* requests, and another application thread looks entries up in the public
\* QP registry while they are being created.
WorkerRc(t) ==
  \/ daemon_check(t)
  \/ daemon_exit(t)
  \/ daemon_trap(t)
  \/ poll_idle(t)
  \/ \E b \in RCBuffers : rc_handler(t, b)
  \/ rc_create_ok(t)
  \/ rc_create_fail(t)
  \/ rc_connect_ok(t)
  \/ rc_connect_fail(t)
  \/ rc_rollback(t)
  \/ rc_fetch(t)
  \/ poll_done(t)

NextObserver ==
  \/ \E c \in SingleCaller : Caller(c)
  \/ \E t \in Tids : WorkerRc(t)
  \/ \E n \in OpenableNics : insert_nic(n)
  \/ \E i \in QpIds : observe_rc(i)

SpecObserver == Init /\ [][NextObserver]_vars

\* As above, with the application registering and deregistering queue pairs
\* of its own in the public QP registry while a connection handler is between
\* its create and its rollback.
CreateInProgress == \E t \in Tids : wpc[t] \in {"rc_connect", "rc_dereg"}

\* well-formed create requests that name the nic the application opens
CreateBuffers ==
  {b \in RCBuffers : Len(b) = Len(RCReqFields) /\ b[2] = 1
                       /\ b[3] \in OpenableNics /\ b[5] = 20}

WorkerCreate(t) ==
  \/ daemon_check(t)
  \/ daemon_exit(t)
  \/ daemon_trap(t)
  \/ poll_idle(t)
  \/ \E b \in CreateBuffers : rc_handler(t, b)
  \/ rc_create_ok(t)
  \/ rc_create_fail(t)
  \/ rc_connect_ok(t)
  \/ rc_connect_fail(t)
  \/ rc_rollback(t)
  \/ rc_fetch(t)
  \/ poll_done(t)

NextOpen ==
  \/ \E c \in SingleCaller : Caller(c)
  \/ \E t \in Tids : WorkerCreate(t)
  \/ \E n \in OpenableNics : insert_nic(n)
  \/ \E i \in QpIds, a \in AppAttrs :
       CreateInProgress /\ app_register_rc(i, a)
  \/ \E i \in QpIds : CreateInProgress /\ app_deregister_rc(i)

SpecOpen == Init /\ [][NextOpen]_vars

\* ------------------------------------------------------------------ claims
\* handler `op` of thread t has returned and its reply is not yet sent
Replied(t, op) == wpc[t] = "replied" /\ opcode[t] = op

\* the connection handler of thread t has returned from a well-formed request
RepliedRc(t) == Replied(t, "CreateRC") /\ DedumpRCReq(inbuf[t]) # None

\* the handler of thread t called `op`
Called(t, op) == op \in calls[t]

\* C1: a create request whose creation succeeds and whose connect fails
\* replies WrongArg, and when the handler has returned the QP registry holds
\* no entry under the request's id.
C1_ConnectFailureRollsBack ==
  \A t \in Tids :
    (RepliedRc(t) /\ RcReq(t).whether_create = 1 /\ Called(t, "connect_failed"))
      => /\ ReplyStatus(reply[t]) = StWrongArg
         /\ query_rc(registered_qps, RcReq(t).id) = None

C1_Witness ==
  \E t \in Tids :
    /\ RepliedRc(t) /\ RcReq(t).whether_create = 1
    /\ RcReq(t).nic_id \in opened_nics
    /\ pre_qps[t][RcReq(t).id] = None
    /\ rc_status[t] # None
    /\ Called(t, "connect_failed")
    /\ Called(t, "deregister_rc")

\* C2: once a create request for an id has replied Ok, a fetch-only request
\* (whether_create = 0) for that id replies Ok with the same ConnectionAttr.
C2_FetchAfterCreate ==
  \A t \in Tids :
    (RepliedRc(t) /\ RcReq(t).whether_create = 0
       /\ ok_create[RcReq(t).id] # None)
      => reply[t] = DumpReply(StOk, Value(ok_create[RcReq(t).id]).attr)

\* C3: a well-formed request whose whether_create is neither 0 nor 1 is
\* answered WrongArg, and one whose whether_create is 0 or 1 passes the
\* sanity check (the handler goes on to its first registry call).
C3_FlagValidation ==
  \A t \in Tids :
    RepliedRc(t) =>
      IF RcReq(t).whether_create \in {0, 1}
        THEN calls[t] # {}
        ELSE ReplyStatus(reply[t]) = StWrongArg

\* C4: a create request whose nic_id is not in the NIC registry replies
\* WrongArg, calls none of create, connect and deregister, and leaves the QP
\* registry as it was when the handler was entered.
C4_MissingNic ==
  \A t \in Tids :
    (wpc[t] # "pump" /\ opcode[t] = "CreateRC" /\ DedumpRCReq(inbuf[t]) # None
       /\ RcReq(t).whether_create = 1 /\ RcReq(t).nic_id \notin opened_nics)
      => /\ wpc[t] = "replied"
         /\ ReplyStatus(reply[t]) = StWrongArg
         /\ calls[t] = {"find_opened_nic"}
         /\ registered_qps = pre_qps[t]

C4_Witness ==
  \E t \in Tids :
    /\ RepliedRc(t) /\ RcReq(t).whether_create = 1
    /\ RcReq(t).nic_id \notin opened_nics
    /\ opened_nics # {}
    /\ \E i \in QpIds : registered_qps[i] # None

\* a thread that exists and has not been joined
Alive(t) == wpc[t] \notin {"unborn", "joined"}

\* thread t is inside run_one_event_loop: in a handler, or holding its reply
InEventLoop(t) ==
  wpc[t] \in {"rc_create", "rc_connect", "rc_dereg", "rc_fetch", "replied"}

\* C5: when stop_daemon, called on a running daemon, has returned, the worker
\* thread has ended and been joined and nothing is processed, until a later
\* start_daemon creates a worker.
C5_StoppedMeansQuiet ==
  \A c \in Callers :
    lastop[c] \in {"stop", "stop_noop"} => \A t \in Tids : ~Alive(t)

C5_Witness ==
  \E c \in Callers, t \in Tids :
    /\ lastop[c] = "stop" /\ cpc[c] = "idle"
    /\ ~running
    /\ wpc[t] = "joined"
    /\ \E i \in QpIds : ok_create[i] # None

\* C6, as stated: whenever the worker is inside run_one_event_loop or a
\* handler, the running flag is true.
C6_RunningWhileProcessing ==
  \A t \in Tids : InEventLoop(t) => running

\* C6, amended: a worker inside run_one_event_loop while the running flag is
\* false is the thread of handler_tid, and the stop_daemon call that cleared
\* the flag has not returned: it is at, or blocked in, its pthread_join.
C6_ProcessingOutlivesFlagNotStop ==
  \A t \in Tids :
    (InEventLoop(t) /\ ~running)
      => /\ handler_tid = t
         /\ \E c \in Callers : cpc[c] \in {"stop_join", "stop_wait"}

C6_Witness ==
  \E t \in Tids, c \in Callers :
    /\ wpc[t] \in {"rc_create", "rc_connect"}
    /\ ~running
    /\ cpc[c] = "stop_wait" /\ join_tid[c] = t

\* thread t enters a handler in this step and returns from it at once
HandledAtOnce(t) == wpc[t] = "pump" /\ wpc'[t] = "replied"

\* the buffer handed to the handler of `op` does not deserialize
Malformed(op, b) ==
  \/ op = "FetchMr" /\ DedumpMRReq(b) = None
  \/ op = "CreateRC" /\ DedumpRCReq(b) = None

\* C7: either handler, given bytes that do not deserialize, returns WrongArg
\* in a step that leaves the MR, QP and NIC registries unchanged.
C7_MalformedIsWrongArg ==
  [][\A t \in Tids :
       (wpc[t] = "pump" /\ wpc'[t] # "pump" /\ opcode'[t] # "none"
          /\ Malformed(opcode'[t], inbuf'[t]))
         => /\ wpc'[t] = "replied"
            /\ ReplyStatus(reply'[t]) = StWrongArg
            /\ calls'[t] = {}
            /\ UNCHANGED registries]_vars

C7_Witness ==
  \E t \in Tids :
    /\ Replied(t, "CreateRC") /\ inbuf[t] = <<0, 1, 0>>
    /\ ReplyStatus(reply[t]) = StWrongArg
    /\ 0 \in opened_nics
    /\ \E i \in MrIds : registered_mrs[i] # None
    /\ \E i \in QpIds : registered_qps[i] # None

\* C8: a well-formed fetch-MR request for id x replies Ok with exactly the
\* attribute the MR registry holds under x when x has been inserted, and
\* NotFound when x has not.
C8_FetchMrReadsRegistry ==
  [][\A t \in Tids :
       (HandledAtOnce(t) /\ opcode'[t] = "FetchMr"
          /\ ~Malformed("FetchMr", inbuf'[t]))
         => LET x == Value(DedumpMRReq(inbuf'[t])).id IN
            IF registered_mrs[x] # None
              THEN reply'[t] = DumpReply(StOk, Value(registered_mrs[x]))
              ELSE ReplyStatus(reply'[t]) = StNotFound]_vars

C8_Witness ==
  \E t \in Tids :
    /\ Replied(t, "FetchMr") /\ DedumpMRReq(inbuf[t]) # None
    /\ reply[t] = DumpReply(StOk, 41)
    /\ registered_mrs[inbuf[t][1]] = Some(41)
    /\ \E i \in MrIds : registered_mrs[i] = None

\* thread t has answered a create request that repeats, for an id that was
\* registered when the handler was entered, the request that replied Ok
RetriedCreate(t) ==
  /\ RepliedRc(t) /\ RcReq(t).whether_create = 1
  /\ pre_qps[t][RcReq(t).id] # None
  /\ ok_create[RcReq(t).id] # None
  /\ Value(ok_create[RcReq(t).id]).buf = inbuf[t]

CreateRefused(t) ==
  /\ RepliedRc(t) /\ RcReq(t).whether_create = 1
  /\ Called(t, "create_and_register_rc")
  /\ pre_qps[t][RcReq(t).id] # None \/ rc_status[t] = None

\* C10: a create request with a valid nic whose id is already registered, or
\* whose creation fails, replies WrongArg without calling connect or
\* deregister, and what was registered under the id is still there unchanged.
C10_RefusedCreateKeepsEntry ==
  \A t \in Tids :
    CreateRefused(t)
      => /\ ReplyStatus(reply[t]) = StWrongArg
         /\ ~Called(t, "connect")
         /\ ~Called(t, "deregister_rc")
         /\ registered_qps = pre_qps[t]

C10_Witness ==
  \E t \in Tids :
    /\ CreateRefused(t)
    /\ pre_qps[t][RcReq(t).id] # None
    /\ Value(registered_qps[RcReq(t).id]).peer # Some(RcReq(t).attr)

\* thread t runs daemon(): created, and not yet at the end of the function
InDaemon(t) == wpc[t] \notin {"unborn", "exited", "joined"}

\* C11: with start_daemon never called on a running daemon, at most one
\* worker thread runs at any time and at most one handler invocation is in
\* progress, also when the daemon is stopped and started again.
C11_OneWorkerOneHandler ==
  /\ Cardinality({t \in Tids : InDaemon(t)}) <= 1
  /\ Cardinality({t \in Tids : InEventLoop(t)}) <= 1

C11_Witness ==
  \E t, u \in Tids :
    /\ wpc[u] = "joined"
    /\ wpc[t] \in {"rc_connect", "rc_fetch"}
    /\ handler_tid = t

\* C12: a request in progress when running is cleared is carried through to
\* its reply before the worker leaves the loop (a worker outside the loop has
\* no request and no reply in hand), and a worker begins at most one
\* run_one_event_loop call with running false.
C12_StopTakesEffectBetweenIterations ==
  \A t \in Tids :
    /\ polls_after_clear[t] <= 1
    /\ wpc[t] \in {"unborn", "check", "pump", "log", "exited", "joined"}
         => opcode[t] = "none" /\ reply[t] = NoReply /\ calls[t] = {}

C12_Witness ==
  \E t \in Tids :
    /\ ~running
    /\ polls_after_clear[t] = 0
    /\ RepliedRc(t) /\ Called(t, "connect")
    /\ ReplyStatus(reply[t]) = StOk

\* C14: stop_daemon on a daemon that is not running (never started, or
\* stopped) returns at once: no join, and running, handler_tid, the threads
\* and the three registries are as before.
C14_StopWhenStoppedIsNoOp ==
  [][\A c \in Callers :
       (cpc[c] = "idle" /\ ~running /\ ~running'
          /\ <<cpc[c], lastop[c]>>' # <<cpc[c], lastop[c]>>)
         => /\ cpc'[c] = "idle"
            /\ lastop'[c] = "stop_noop"
            /\ UNCHANGED <<running, handler_tid, join_tid, joins, wpc>>
            /\ UNCHANGED registries]_vars

C14_Witness ==
  \E c \in Callers, t \in Tids :
    /\ lastop[c] = "stop_noop"
    /\ wpc[t] = "joined" /\ joins[t] = 1
    /\ \E i \in QpIds : registered_qps[i] # None

\* the fetch-only flag of RCReq::whether_create
FetchOnly(whether_create) == whether_create = 0

\* C16: a well-formed connection request with the fetch-only flag replies
\* NotFound when its id is not in the QP registry and Ok with the entry's
\* attribute when it is, and leaves the QP registry as it was.
C16_FetchOnlyReplies ==
  \A t \in Tids :
    (RepliedRc(t) /\ FetchOnly(RcReq(t).whether_create))
      => /\ reply[t] = fetch_qp_attr(pre_qps[t], RcReq(t))
         /\ registered_qps = pre_qps[t]

\* the QP registry calls rc_handler makes
QpCalls == {"create_and_register_rc", "connect", "deregister_rc", "query_rc"}

\* thread t takes a step of daemon(), of the event loop or of a handler
WorkerStep(t) == wpc[t] \notin {"unborn", "exited"} /\ wpc'[t] # wpc[t]

\* C17: a handler step never changes the MR registry or the NIC registry;
\* fetch_mr_handler changes no registry; rc_handler changes at most the QP
\* entry under the request's own id, and in a create request it has called
\* find_opened_nic before its first call on the QP registry.
C17_HandlersFrame ==
  [][\A t \in Tids :
       WorkerStep(t)
         => /\ UNCHANGED <<registered_mrs, opened_nics>>
            /\ registered_qps' # registered_qps
                 => /\ opcode[t] = "CreateRC"
                    /\ DedumpRCReq(inbuf[t]) # None
                    /\ \A i \in QpIds \ {RcReq(t).id} :
                         registered_qps'[i] = registered_qps[i]
            /\ (calls'[t] \cap QpCalls # {} /\ calls[t] \cap QpCalls = {}
                  /\ DedumpRCReq(inbuf'[t]) # None
                  /\ WantsCreate(Value(DedumpRCReq(inbuf'[t])).whether_create))
                 => "find_opened_nic" \in calls[t]]_vars

C17_Witness ==
  \E t \in Tids :
    /\ RepliedRc(t) /\ Called(t, "deregister_rc")
    /\ RcReq(t).id = 1
    /\ registered_qps[0] # None /\ registered_qps[1] = None
    /\ \E m \in MrIds : registered_mrs[m] # None

\* C18: with no handler in progress every registered QP is connected; an Ok
\* reply to a create request means the entry under its id was created by
\* this request and connected, successfully, to the request's attr.
C18_RegisteredMeansConnected ==
  /\ (\A t \in Tids : ~InRcHandler(t))
       => \A i \in QpIds :
            registered_qps[i] # None => Value(registered_qps[i]).peer # None
  /\ \A t \in Tids :
       (RepliedRc(t) /\ WantsCreate(RcReq(t).whether_create)
          /\ ReplyStatus(reply[t]) = StOk)
         => /\ pre_qps[t][RcReq(t).id] = None
            /\ Called(t, "create_and_register_rc")
            /\ Called(t, "connect") /\ ~Called(t, "connect_failed")
            /\ rc_status[t] # None
            /\ registered_qps[RcReq(t).id] = rc_status[t]
            /\ Value(rc_status[t]).peer = Some(RcReq(t).attr)
            /\ ReplyAttr(reply[t]) = my_attr(Value(rc_status[t]))

C18_Witness ==
  \E t \in Tids :
    /\ RepliedRc(t) /\ WantsCreate(RcReq(t).whether_create)
    /\ ReplyStatus(reply[t]) = StOk
    /\ RcReq(t).id = 1 /\ RcReq(t).attr = 21
    /\ registered_qps[0] # None
    /\ Value(registered_qps[1]).peer = Some(21)

\* caller c is inside a stop_daemon call that found the daemon running
Stopping(c) == cpc[c] \in {"stop_clear", "stop_join", "stop_wait"}

\* C13: a stop_daemon call on a running daemon does not get stuck: until it
\* has returned, the caller or a worker thread can take a step (the worker
\* leaves its loop and ends, the join returns), and when the call is past
\* its join the thread it joined has ended.
C13_StopReturns ==
  \A c \in SingleCaller :
    /\ Stopping(c) => ENABLED (Caller(c) \/ \E t \in Tids : Worker(t))
    /\ (lastop[c] = "stop" /\ cpc[c] = "idle")
         => \A t \in Tids : wpc[t] \in {"unborn", "joined"} \/ running

\* C15: when two threads call stop_daemon while the daemon is running, the
\* worker thread is the target of exactly one pthread_join; no call joins a
\* handle that has been joined already.
C15_JoinedOnce ==
  /\ \A t \in Tids : joins[t] <= 1
  /\ \A c \in Callers :
       (cpc[c] = "stop_wait" /\ join_tid[c] \in Tids)
         => wpc[join_tid[c]] # "joined"

\* what the observing thread found at its last lookup
Seen == Value(observed)

\* C19 as stated: what an outside thread finds under the id of a create
\* request in progress is connected, and is not removed afterwards.
C19_CreationAtomic ==
  observed # None
    => /\ Seen.rc.peer # None
       /\ registered_qps[Seen.id] # None

\* C19: creation is visible before it is complete, within these limits: an
\* unconnected entry is in the registry only between the create and the
\* connect (or the rollback) of the handler invocation that created it, under
\* that request's id; an entry an outside thread has seen connected stays
\* registered as seen.
C19_UnconnectedOnlyInsideCreate ==
  /\ \A i \in QpIds :
       (registered_qps[i] # None /\ Value(registered_qps[i]).peer = None)
         => \E t \in Tids :
              /\ wpc[t] \in {"rc_connect", "rc_dereg"}
              /\ RcReq(t).id = i
              /\ rc_status[t] = registered_qps[i]
  /\ (observed # None /\ Seen.rc.peer # None)
       => registered_qps[Seen.id] = Some(Seen.rc)

C19_Witness ==
  /\ observed # None
  /\ Seen.rc.peer = None
  /\ registered_qps[Seen.id] = None
  /\ \E t \in Tids : RepliedRc(t) /\ Called(t, "deregister_rc")
                      /\ RcReq(t).id = Seen.id

\* C20: the entry the connect-failure rollback takes out of the QP registry
\* is the queue pair this request created, also when the application changes
\* the registry between the create and the rollback.
C20_RollbackRemovesOwn ==
  [][\A t \in Tids :
       (wpc[t] = "rc_dereg" /\ wpc'[t] = "replied")
         => \A i \in QpIds :
              registered_qps'[i] # registered_qps[i]
                => registered_qps[i] = rc_status[t]]_vars

====
